---- MODULE Spec2Model ----
(***************************************************************************)
(* Model of the two VIC stream preview drivers of c64stream:               *)
(*   tools/vic_preview_live.py  (live UDP monitor, one scanline)           *)
(*   tools/vic_preview.py       (pcap replay, four scanlines per packet)   *)
(* A run of the model is a run of one of the two scripts (mode).           *)
(***************************************************************************)
EXTENDS Integers, Sequences, FiniteSets, TLC

VARIABLES
    mode,        \* which script runs: "live", "replay", or "call" (a bare call of print_middle_line)
    pc,          \* position of the driver in its main()
    ready,       \* live: what the last select() returned: "unset", "empty" or "sock"
    payload,     \* the datagram / UDP payload handled last (sequence of bytes 0..255)
    line_num,    \* local line_num of print_middle_line for that payload, NoLine if not decoded
    line_index,  \* local line_index of print_middle_line, NoLine if not selected
    stdout,      \* the text lines print() has written, in order
    outs,        \* history: for each handled datagram/frame, the lines printed while handling it
    rxlog,       \* history: the datagrams recvfrom() has returned, in order
    capture,     \* replay: the frames of the pcap file, in capture order
    pos,         \* replay: number of frames the reader has yielded
    advances,    \* replay: number of input() calls that returned (operator pressed Enter)
    sockOpen,    \* live: the UDP socket is open
    readerOpen,  \* replay: the pcap file is open
    interrupted, \* a KeyboardInterrupt was delivered
    unhandled    \* an exception left main() uncaught

vars == <<mode, pc, ready, payload, line_num, line_index, stdout, outs, rxlog, capture,
          pos, advances, sockOpen, readerOpen, interrupted, unhandled>>

-----------------------------------------------------------------------------
(* Bounds of the model *)

MaxDatagrams == 2   \* datagrams the live driver receives in one run
MaxFrames == 2      \* frames in a capture file

(* Program constants *)

HEADER_SIZE == 12
SCREEN_HEIGHT == 272
MIDDLE_LINE == SCREEN_HEIGHT \div 2
BYTES_PER_LINE == 384 \div 2
LINES_PER_PACKET == 4
REPLAY_BYTES_PER_LINE == 96
RECV_BUFSIZE == 2048
LINE_MASK == 32767

NoLine == 0 - 1

-----------------------------------------------------------------------------
(* Python integer and sequence primitives *)

Min(a, b) == IF a < b THEN a ELSE b

RECURSIVE BitAnd(_, _)
BitAnd(a, b) ==
    IF a = 0 \/ b = 0 THEN 0
    ELSE (a % 2) * (b % 2) + 2 * BitAnd(a \div 2, b \div 2)

RECURSIVE Shl(_, _)
Shl(a, n) == IF n = 0 THEN a ELSE Shl(2 * a, n - 1)

RECURSIVE Shr(_, _)
Shr(a, n) == IF n = 0 THEN a ELSE Shr(a \div 2, n - 1)

\* s[a:b] with 0 <= a <= b: the slice is cut at the end of s, never an error
Slice(s, a, b) == SubSeq(s, a + 1, Min(b, Len(s)))

\* s[a:]
SliceFrom(s, a) == SubSeq(s, a + 1, Len(s))

-----------------------------------------------------------------------------
(* vic_preview_live.py *)

vic_colors_live ==
    <<" ", ".", "R", "C", "P", "G", "B", "Y",
      "O", "N", "r", "g", "m", "l", "L", "E">>

\* variant: the 0x7FFF mask is left out
decode_line_num_nomask(p) == p[5] + Shl(p[6], 8)

\* line_num_raw = payload[4] + (payload[5] << 8); line_num = line_num_raw & 0x7FFF
decode_line_num(p) == BitAnd(p[5] + Shl(p[6], 8), LINE_MASK)

\* variant: the upper end of the range test is inclusive
contains_middle_inclusive(n) == n <= MIDDLE_LINE /\ MIDDLE_LINE <= n + LINES_PER_PACKET

\* if line_num <= MIDDLE_LINE < line_num + LINES_PER_PACKET
contains_middle(n) == n <= MIDDLE_LINE /\ MIDDLE_LINE < n + LINES_PER_PACKET

\* variant: low nibble first
line_pixels_live_swapped(bs) ==
    [k \in 1..(2 * Len(bs)) |->
        IF k % 2 = 1 THEN vic_colors_live[BitAnd(bs[(k + 1) \div 2], 15) + 1]
                     ELSE vic_colors_live[Shr(bs[k \div 2], 4) + 1]]

\* the loop appending vic_colors[b >> 4] then vic_colors[b & 0xF] for each byte:
\* element 2k-1 comes from the high nibble of byte k, element 2k from its low nibble
line_pixels_live(bs) ==
    [k \in 1..(2 * Len(bs)) |->
        IF k % 2 = 1 THEN vic_colors_live[Shr(bs[(k + 1) \div 2], 4) + 1]
                     ELSE vic_colors_live[BitAnd(bs[k \div 2], 15) + 1]]

\* print_middle_line(payload): the locals it computes and the lines it prints
print_middle_line(p) ==
    IF Len(p) < HEADER_SIZE
    THEN [line_num |-> NoLine, line_index |-> NoLine, printed |-> <<>>]
    ELSE LET n == decode_line_num(p) IN
         IF ~contains_middle(n)
         THEN [line_num |-> n, line_index |-> NoLine, printed |-> <<>>]
         ELSE LET i == MIDDLE_LINE - n
                  pixel_data == SliceFrom(p, HEADER_SIZE)
                  start == i * BYTES_PER_LINE
                  end == start + BYTES_PER_LINE
              IN  IF end > Len(pixel_data)
                  THEN [line_num |-> n, line_index |-> i, printed |-> <<>>]
                  ELSE [line_num |-> n, line_index |-> i,
                        printed |-> <<line_pixels_live(Slice(pixel_data, start, end))>>]

-----------------------------------------------------------------------------
(* vic_preview.py *)

vic_colors ==
    <<" ", ".", "R", "C", "P", "G", "B", "Y",
      "O", "N", "r", "g", "m", "l", "L", "E">>

\* the inner loop of print_packet: vic_colors[high] then vic_colors[low] for each byte
line_pixels(bs) ==
    [k \in 1..(2 * Len(bs)) |->
        IF k % 2 = 1 THEN vic_colors[Shr(bs[(k + 1) \div 2], 4) + 1]
                     ELSE vic_colors[BitAnd(bs[k \div 2], 15) + 1]]

\* print_packet(payload): one print per line in range(4), whatever the slice holds
print_packet(p) ==
    LET pixel_data == SliceFrom(p, HEADER_SIZE) IN
    [line \in 1..LINES_PER_PACKET |->
        line_pixels(Slice(pixel_data, (line - 1) * REPLAY_BYTES_PER_LINE,
                                      line * REPLAY_BYTES_PER_LINE))]

\* variant: the length test is left out
Qualifies_nolen(f) == f.kind = "udp"

\* the isinstance chain and the length test of main()
Qualifies(f) == f.kind = "udp" /\ Len(f.data) >= HEADER_SIZE

-----------------------------------------------------------------------------
(* Inputs *)

\* A payload of the given length: bytes 4 and 5 are b4 and b5, all other
\* bytes (header bytes 0-3, 6-11 and the pixel bytes) follow from seed.
MkPayload(len, b4, b5, seed) ==
    [k \in 1..len |->
        IF k = 5 THEN b4
        ELSE IF k = 6 THEN b5
        ELSE (seed * k) % 256]

FullLen == HEADER_SIZE + LINES_PER_PACKET * BYTES_PER_LINE

LiveParams ==
    { <<0, 0, 0, 0>>,
      <<HEADER_SIZE - 1, 136, 0, 7>>,
      <<HEADER_SIZE, 136, 0, 7>>,
      <<HEADER_SIZE + BYTES_PER_LINE - 1, 136, 0, 7>>,
      <<HEADER_SIZE + BYTES_PER_LINE, 136, 0, 0>>,
      <<FullLen, 136, 0, 7>>,
      <<FullLen, 136, 0, 5>>,
      <<FullLen, 133, 0, 7>>,
      <<FullLen - 1, 133, 0, 7>>,
      <<FullLen, 132, 0, 7>>,
      <<FullLen, 137, 0, 7>>,
      <<FullLen, 200, 0, 7>>,
      <<FullLen, 136, 128, 7>>,
      <<FullLen, 136, 1, 7>> }

Datagrams == { MkPayload(q[1], q[2], q[3], q[4]) : q \in LiveParams }

ReplayParams ==
    { <<0, 0, 0, 0>>,
      <<HEADER_SIZE - 1, 136, 0, 7>>,
      <<HEADER_SIZE, 136, 0, 7>>,
      <<HEADER_SIZE + REPLAY_BYTES_PER_LINE + 1, 136, 0, 5>>,
      <<FullLen, 136, 0, 7>>,
      <<FullLen, 200, 0, 5>> }

Frames ==
    { [kind |-> "udp", data |-> MkPayload(q[1], q[2], q[3], q[4])] : q \in ReplayParams }
    \cup { [kind |-> "non_ip", data |-> <<>>],
           [kind |-> "ip_other", data |-> MkPayload(FullLen, 136, 0, 7)] }

RECURSIVE SeqsUpTo(_, _)
SeqsUpTo(S, n) ==
    IF n = 0 THEN { <<>> }
    ELSE LET shorter == SeqsUpTo(S, n - 1)
         IN  shorter \cup { Append(s, x) : s \in shorter, x \in S }

Captures == SeqsUpTo(Frames, MaxFrames)

\* inputs of a bare call of print_middle_line, as <<length, byte 4, byte 5, seed>>:
\* every header byte pair on a header-only payload under two fillings of the
\* other bytes, and full-size payloads for every byte 4 with five values of byte 5
CallParams ==
    ({HEADER_SIZE} \X (0..255) \X (0..255) \X {1, 7})
    \cup ({FullLen} \X (0..255) \X {0, 1, 127, 128, 255} \X {7})

-----------------------------------------------------------------------------
(* Initial states *)

Init ==
    /\ mode \in {"live", "replay"}
    /\ pc = "start"
    /\ ready = "unset"
    /\ payload = <<>>
    /\ line_num = NoLine
    /\ line_index = NoLine
    /\ stdout = <<>>
    /\ outs = <<>>
    /\ rxlog = <<>>
    /\ capture \in (IF mode = "replay" THEN Captures ELSE { <<>> })
    /\ pos = 0
    /\ advances = 0
    /\ sockOpen = FALSE
    /\ readerOpen = FALSE
    /\ interrupted = FALSE
    /\ unhandled = FALSE

CallInit ==
    /\ mode = "call"
    /\ pc = "call"
    /\ ready = "unset"
    /\ \E q \in CallParams : payload = MkPayload(q[1], q[2], q[3], q[4])
    /\ line_num = NoLine
    /\ line_index = NoLine
    /\ stdout = <<>>
    /\ outs = <<>>
    /\ rxlog = <<>>
    /\ capture = <<>>
    /\ pos = 0
    /\ advances = 0
    /\ sockOpen = FALSE
    /\ readerOpen = FALSE
    /\ interrupted = FALSE
    /\ unhandled = FALSE

-----------------------------------------------------------------------------
(* vic_preview_live.py main() *)

\* socket.socket(...); sock.bind(...) succeeds, the loop is entered
LiveBind ==
    /\ mode = "live" /\ pc = "start"
    /\ pc' = "WAITING"
    /\ sockOpen' = TRUE
    /\ UNCHANGED <<mode, ready, payload, line_num, line_index, stdout, outs, rxlog,
                   capture, pos, advances, readerOpen, interrupted, unhandled>>

\* sock.bind raises OSError before the try block: the process ends with a traceback
LiveBindFail ==
    /\ mode = "live" /\ pc = "start"
    /\ pc' = "failed"
    /\ unhandled' = TRUE
    /\ UNCHANGED <<mode, ready, payload, line_num, line_index, stdout, outs, rxlog,
                   capture, pos, advances, sockOpen, readerOpen, interrupted>>

\* select.select([sock], [], [], 1.0) returns with the socket readable
LiveSelectReadable ==
    /\ mode = "live" /\ pc = "WAITING"
    /\ Len(rxlog) < MaxDatagrams
    /\ ready' = "sock"
    /\ pc' = "PACKET_RECEIVED"
    /\ UNCHANGED <<mode, payload, line_num, line_index, stdout, outs, rxlog, capture,
                   pos, advances, sockOpen, readerOpen, interrupted, unhandled>>

\* select.select times out: ready[0] is empty, the loop goes round
LiveSelectTimeout ==
    /\ mode = "live" /\ pc = "WAITING"
    /\ ready' = "empty"
    /\ pc' = "WAITING"
    /\ UNCHANGED <<mode, payload, line_num, line_index, stdout, outs, rxlog, capture,
                   pos, advances, sockOpen, readerOpen, interrupted, unhandled>>

\* what main() does with the bytes recvfrom returned: the length test, print_middle_line
LiveResult(data) ==
    IF Len(data) >= HEADER_SIZE
    THEN print_middle_line(data)
    ELSE [line_num |-> NoLine, line_index |-> NoLine, printed |-> <<>>]

\* the state after recvfrom returned data and the loop body ran with result r
LiveEffect(data, r, next_pc) ==
    /\ payload' = data
    /\ rxlog' = Append(rxlog, data)
    /\ line_num' = r.line_num
    /\ line_index' = r.line_index
    /\ stdout' = stdout \o r.printed
    /\ outs' = Append(outs, r.printed)
    /\ pc' = next_pc
    /\ UNCHANGED <<mode, ready, capture, pos, advances, sockOpen, readerOpen,
                   interrupted, unhandled>>

\* variant: a datagram equal to the previous one is not rendered again
LiveRecv_dedupe ==
    /\ mode = "live" /\ pc = "PACKET_RECEIVED"
    /\ \E d \in Datagrams :
          LET data == Slice(d, 0, RECV_BUFSIZE)
              r == LiveResult(data)
          IN  IF rxlog # <<>> /\ rxlog[Len(rxlog)] = data
              THEN LiveEffect(data, [r EXCEPT !.printed = <<>>], "WAITING")
              ELSE LiveEffect(data, r, "WAITING")

\* variant: a datagram shorter than the header ends the loop
LiveRecv_stop_on_short ==
    /\ mode = "live" /\ pc = "PACKET_RECEIVED"
    /\ \E d \in Datagrams :
          LET data == Slice(d, 0, RECV_BUFSIZE)
          IN  LiveEffect(data, LiveResult(data),
                         IF Len(data) < HEADER_SIZE THEN "returned" ELSE "WAITING")

\* data, _ = sock.recvfrom(2048); if len(data) >= 12: print_middle_line(data)
LiveRecv ==
    /\ mode = "live" /\ pc = "PACKET_RECEIVED"
    /\ \E d \in Datagrams :
          LET data == Slice(d, 0, RECV_BUFSIZE)
          IN  LiveEffect(data, LiveResult(data), "WAITING")

\* KeyboardInterrupt inside the try block: except KeyboardInterrupt: pass, and main
\* returns. main never calls sock.close(): the socket goes with the local variable
\* when main's frame is dropped.
LiveInterrupt ==
    /\ mode = "live" /\ pc \in {"WAITING", "PACKET_RECEIVED"}
    /\ interrupted' = TRUE
    /\ pc' = "returned"
    /\ sockOpen' = FALSE
    /\ UNCHANGED <<mode, ready, payload, line_num, line_index, stdout, outs, rxlog,
                   capture, pos, advances, readerOpen, unhandled>>

-----------------------------------------------------------------------------
(* vic_preview.py main() *)

\* open(pcap_file, 'rb') and dpkt.pcap.Reader(f) succeed
ReplayOpen ==
    /\ mode = "replay" /\ pc = "start"
    /\ pc' = "iter"
    /\ readerOpen' = TRUE
    /\ UNCHANGED <<mode, ready, payload, line_num, line_index, stdout, outs, rxlog,
                   capture, pos, advances, sockOpen, interrupted, unhandled>>

\* open() or the Reader raises: the process ends with a traceback, no file is held
ReplayOpenFail ==
    /\ mode = "replay" /\ pc = "start"
    /\ pc' = "failed"
    /\ unhandled' = TRUE
    /\ UNCHANGED <<mode, ready, payload, line_num, line_index, stdout, outs, rxlog,
                   capture, pos, advances, sockOpen, readerOpen, interrupted>>

\* variant: the loop goes on to the next frame without calling input()
ReplayFrame_noprompt ==
    /\ mode = "replay" /\ pc = "iter"
    /\ pos < Len(capture)
    /\ pos' = pos + 1
    /\ LET f == capture[pos + 1]
           printed == IF Qualifies(f) THEN print_packet(f.data) ELSE <<>>
       IN  /\ payload' = f.data
           /\ stdout' = stdout \o printed
           /\ outs' = Append(outs, printed)
           /\ pc' = "iter"
    /\ UNCHANGED <<mode, ready, line_num, line_index, rxlog, capture, advances, sockOpen,
                   readerOpen, interrupted, unhandled>>

\* one pass of the for loop up to the input() call
ReplayFrame ==
    /\ mode = "replay" /\ pc = "iter"
    /\ pos < Len(capture)
    /\ pos' = pos + 1
    /\ LET f == capture[pos + 1]
           printed == IF Qualifies(f) THEN print_packet(f.data) ELSE <<>>
       IN  /\ payload' = f.data
           /\ stdout' = stdout \o printed
           /\ outs' = Append(outs, printed)
           /\ pc' = IF Qualifies(f) THEN "prompt" ELSE "iter"
    /\ UNCHANGED <<mode, ready, line_num, line_index, rxlog, capture, advances, sockOpen,
                   readerOpen, interrupted, unhandled>>

\* input("Press Enter for next packet...") returns
ReplayAdvance ==
    /\ mode = "replay" /\ pc = "prompt"
    /\ advances' = advances + 1
    /\ pc' = "iter"
    /\ UNCHANGED <<mode, ready, payload, line_num, line_index, stdout, outs, rxlog,
                   capture, pos, sockOpen, readerOpen, interrupted, unhandled>>

\* the reader is exhausted: the with block closes the file, main returns
ReplayEnd ==
    /\ mode = "replay" /\ pc = "iter"
    /\ pos = Len(capture)
    /\ pc' = "returned"
    /\ readerOpen' = FALSE
    /\ UNCHANGED <<mode, ready, payload, line_num, line_index, stdout, outs, rxlog,
                   capture, pos, advances, sockOpen, interrupted, unhandled>>

\* KeyboardInterrupt while input() blocks: main has no handler, so the with block
\* closes the file and the exception leaves main
ReplayInterrupt ==
    /\ mode = "replay" /\ pc = "prompt"
    /\ interrupted' = TRUE
    /\ readerOpen' = FALSE
    /\ unhandled' = TRUE
    /\ pc' = "raised"
    /\ UNCHANGED <<mode, ready, payload, line_num, line_index, stdout, outs, rxlog,
                   capture, pos, advances, sockOpen>>

-----------------------------------------------------------------------------
(* A bare call of print_middle_line on a chosen payload *)

CallPrintMiddleLine ==
    /\ mode = "call" /\ pc = "call"
    /\ LET r == print_middle_line(payload)
       IN  /\ line_num' = r.line_num
           /\ line_index' = r.line_index
           /\ stdout' = stdout \o r.printed
           /\ outs' = Append(outs, r.printed)
    /\ pc' = "ret"
    /\ UNCHANGED <<mode, ready, payload, rxlog, capture, pos, advances, sockOpen,
                   readerOpen, interrupted, unhandled>>

-----------------------------------------------------------------------------
(* Specifications *)

Next ==
    \/ LiveBind
    \/ LiveBindFail
    \/ LiveSelectReadable
    \/ LiveSelectTimeout
    \/ LiveRecv
    \/ LiveInterrupt
    \/ ReplayOpen
    \/ ReplayOpenFail
    \/ ReplayFrame
    \/ ReplayAdvance
    \/ ReplayEnd
    \/ ReplayInterrupt

Spec == Init /\ [][Next]_vars

CallNext == CallPrintMiddleLine

SpecCall == CallInit /\ [][CallNext]_vars

-----------------------------------------------------------------------------
(* Properties *)

RECURSIVE BitOr(_, _)
BitOr(a, b) ==
    IF a = 0 THEN b
    ELSE IF b = 0 THEN a
    ELSE (IF a % 2 = 1 \/ b % 2 = 1 THEN 1 ELSE 0) + 2 * BitOr(a \div 2, b \div 2)

RECURSIVE Flatten(_)
Flatten(ss) == IF ss = <<>> THEN <<>> ELSE Head(ss) \o Flatten(Tail(ss))

\* the lines printed for the datagram or frame handled last
LastOut == IF outs = <<>> THEN <<>> ELSE outs[Len(outs)]

\* line is the text of bytes: two glyphs per byte, high nibble then low nibble
GlyphsOf(line, bytes) ==
    /\ Len(line) = 2 * Len(bytes)
    /\ \A k \in 1..Len(bytes) :
          /\ bytes[k] \div 16 \in 0..15
          /\ line[2 * k - 1] = vic_colors_live[(bytes[k] \div 16) + 1]
          /\ line[2 * k] = vic_colors_live[(bytes[k] % 16) + 1]

\* C1: for a payload of at least 12 bytes, the start line print_middle_line uses is
\* (payload[4] | payload[5] << 8) & 0x7FFF, a value in 0..32767 that depends on
\* bytes 4 and 5 alone.
C1_StartLine ==
    (mode = "call" /\ pc = "ret" /\ Len(payload) >= 12) =>
        /\ line_num = BitOr(payload[5], payload[6] * 256) % 32768
        /\ line_num \in 0..32767

C1_Witness ==
    /\ mode = "call" /\ pc = "ret"
    /\ payload[5] = 136 /\ payload[6] = 128
    /\ line_num = 136

\* C2: print_middle_line selects a packet iff startLine <= 136 < startLine + 4; when
\* selected the in-packet index is 136 - startLine, in 0..3; when not selected
\* nothing is printed.
C2_Selection ==
    (mode = "call" /\ pc = "ret" /\ Len(payload) >= 12) =>
        /\ line_num \in 0..32767
        /\ (line_index # NoLine) <=> (line_num <= 136 /\ 136 < line_num + 4)
        /\ (line_index # NoLine) => (line_index = 136 - line_num /\ line_index \in 0..3)
        /\ (line_index = NoLine) => (stdout = <<>> /\ LastOut = <<>>)

C2_Witness ==
    /\ mode = "call" /\ pc = "ret"
    /\ line_num = 133 /\ line_index = 3
    /\ Len(stdout) = 1

\* C3: a line is printed only if the pixel payload holds the whole byte range of that
\* line, so every printed line has 2 x (bytes per line) glyphs, and a payload of
\* exactly 12 bytes prints no line.
C3_NoPartialLine ==
    /\ \A j \in 1..Len(outs) : \A l \in 1..Len(outs[j]) :
          Len(outs[j][l]) = 2 * (IF mode = "replay" THEN 96 ELSE 192)
    /\ (outs # <<>> /\ Len(payload) = 12) => LastOut = <<>>

\* C4: a payload shorter than 12 bytes is rejected by both drivers: nothing is decoded
\* or printed, no error is raised, and the loop goes on to the next datagram (live) or
\* the next frame without waiting for an operator advance (replay).
C4_ShortStep ==
    /\ (mode = "live" /\ Len(rxlog') = Len(rxlog) + 1 /\ Len(rxlog'[Len(rxlog')]) < 12) =>
          /\ stdout' = stdout
          /\ line_num' = NoLine /\ line_index' = NoLine
          /\ pc' = "WAITING"
          /\ ~unhandled'
    /\ (mode = "replay" /\ pos' = pos + 1 /\ capture[pos'].kind = "udp"
            /\ Len(capture[pos'].data) < 12) =>
          /\ stdout' = stdout
          /\ pc' = "iter"
          /\ advances' = advances
          /\ ~unhandled'

C4_ShortRejected == [][C4_ShortStep]_vars

C4_Witness ==
    /\ mode = "replay" /\ pos = 2 /\ pc = "prompt"
    /\ capture[1].kind = "udp" /\ Len(capture[1].data) = 11
    /\ advances = 0 /\ Len(stdout) = 4

\* C5: every printed line is the line's bytes in order, each byte giving the glyph of
\* its high nibble then the glyph of its low nibble; both drivers use the same
\* 16-entry palette (0xA5 gives "r" then "G").
C5_NibbleOrder ==
    /\ vic_colors = vic_colors_live
    /\ Len(vic_colors_live) = 16
    /\ vic_colors_live[10 + 1] = "r" /\ vic_colors_live[5 + 1] = "G"
    /\ (mode = "live" /\ LastOut # <<>>) =>
          /\ Len(LastOut) = 1
          /\ GlyphsOf(LastOut[1],
                      [k \in 1..192 |-> payload[12 + line_index * 192 + k]])
    /\ (mode = "replay") =>
          \A j \in 1..Len(LastOut) :
              LET first == 12 + (j - 1) * 96
                  last == Min(12 + j * 96, Len(payload))
              IN  GlyphsOf(LastOut[j],
                           [k \in 1..(IF last > first THEN last - first ELSE 0) |->
                               payload[first + k]])

C5_Witness ==
    /\ mode = "live" /\ LastOut # <<>>
    /\ \E k \in 1..192 :
          /\ payload[12 + line_index * 192 + k] = 165
          /\ LastOut[1][2 * k - 1] = "r"
          /\ LastOut[1][2 * k] = "G"

\* C6: the replay driver handles frames in capture order, one at a time; after
\* printing a qualifying frame it reads and prints nothing until one operator
\* advance arrives, one advance per qualifying frame; other frames print nothing
\* and consume no advance.
QualifyingFrame(f) == f.kind = "udp" /\ Len(f.data) >= 12

RECURSIVE NQualifying(_)
NQualifying(n) ==
    IF n = 0 THEN 0
    ELSE NQualifying(n - 1) + (IF QualifyingFrame(capture[n]) THEN 1 ELSE 0)

C6_State ==
    mode = "replay" =>
        /\ pos \in 0..Len(capture)
        /\ Len(outs) = pos
        /\ \A j \in 1..pos :
              outs[j] = IF QualifyingFrame(capture[j])
                        THEN print_packet(capture[j].data) ELSE <<>>
        /\ stdout = Flatten(outs)
        /\ Len(stdout) = 4 * NQualifying(pos)
        /\ pc = "prompt" =>
              (pos >= 1 /\ QualifyingFrame(capture[pos]) /\ advances = NQualifying(pos) - 1)
        /\ pc \in {"iter", "returned"} => advances = NQualifying(pos)

C6_Step ==
    mode = "replay" =>
        /\ pos' \in {pos, pos + 1}
        /\ advances' \in {advances, advances + 1}
        /\ pos' = pos + 1 => (pc = "iter" /\ payload' = capture[pos + 1].data)
        /\ pc = "prompt" => (pos' = pos /\ stdout' = stdout)
        /\ advances' = advances + 1 => (pc = "prompt" /\ pc' = "iter")

C6_SingleStep == [](C6_State) /\ [][C6_Step]_vars

C6_Witness ==
    /\ mode = "replay" /\ pc = "returned" /\ pos = 2
    /\ ~QualifyingFrame(capture[1]) /\ QualifyingFrame(capture[2])
    /\ advances = 1 /\ Len(stdout) = 4

\* C7: an interrupt at a suspension point ends the driver without an unhandled error
\* and with the socket (live) or the capture reader (replay) released.
C7_CleanCancel ==
    interrupted => (pc = "returned" /\ ~unhandled /\ ~sockOpen /\ ~readerOpen)

\* C8: after a successful bind the live driver alternates WAITING and PACKET_RECEIVED:
\* a timeout stays in WAITING with no output and no read, a readable event reads
\* exactly one datagram and returns to WAITING whatever the datagram holds, and the
\* loop is left only by the interrupt.
C8_State ==
    mode = "live" =>
        /\ pc \in {"start", "failed", "WAITING", "PACKET_RECEIVED", "returned"}
        /\ pc = "returned" => interrupted
        /\ pc = "failed" => (rxlog = <<>> /\ stdout = <<>>)

C8_Step ==
    mode = "live" =>
        /\ pc = "WAITING" =>
              \/ pc' \in {"WAITING", "PACKET_RECEIVED"} /\ stdout' = stdout /\ rxlog' = rxlog
              \/ pc' = "returned" /\ interrupted' /\ stdout' = stdout /\ rxlog' = rxlog
        /\ pc = "PACKET_RECEIVED" =>
              \/ pc' = "WAITING" /\ Len(rxlog') = Len(rxlog) + 1 /\ ~interrupted'
              \/ pc' = "returned" /\ interrupted' /\ stdout' = stdout /\ rxlog' = rxlog
        /\ (pc = "WAITING" /\ ready' = "empty") =>
              (stdout' = stdout /\ rxlog' = rxlog /\ pc' \in {"WAITING", "returned"})

C8_TwoStateLoop == [](C8_State) /\ [][C8_Step]_vars

C8_Witness ==
    /\ mode = "live" /\ pc = "WAITING" /\ Len(rxlog) = 2
    /\ Len(rxlog[1]) < 12
    /\ Len(rxlog[2]) >= 12 /\ line_index # NoLine /\ LastOut = <<>>
    /\ stdout = <<>>

\* C9: the live driver keeps no memory across datagrams: what is printed for a
\* datagram (nothing or one line) depends on its bytes alone, the output is the
\* concatenation of the per-datagram outputs in receive order, and a duplicate
\* that covers line 136 is printed once per arrival.
C9_NoMemory ==
    mode = "live" =>
        /\ Len(outs) = Len(rxlog)
        /\ \A i \in 1..Len(outs) : Len(outs[i]) <= 1
        /\ \A i \in 1..Len(outs) : outs[i] = print_middle_line(rxlog[i]).printed
        /\ \A i, j \in 1..Len(outs) : rxlog[i] = rxlog[j] => outs[i] = outs[j]
        /\ stdout = Flatten(outs)

C9_Witness ==
    /\ mode = "live" /\ Len(rxlog) = 2
    /\ rxlog[1] = rxlog[2]
    /\ Len(stdout) = 2 /\ stdout[1] = stdout[2]

\* C10: for a payload the live driver prints a line for, the line of the same
\* in-packet index that the replay driver prints is the same text.
C10_SameLine ==
    (mode = "live" /\ LastOut # <<>>) =>
        print_packet(payload)[line_index + 1] = LastOut[1]

====
